---- MODULE Spec2Model ----
(***************************************************************************)
(* Payroll system (src/payroll_system.py): employee variants, tax          *)
(* brackets, the payroll runner and the PayrollSystem orchestrator.        *)
(*                                                                         *)
(* Three specifications: Spec, a PayrollSystem under process_payroll calls  *)
(* and mutator calls on its employees; SpecObj, one employee object under  *)
(* direct method calls; SpecTax, TaxCalculator.net under direct calls.     *)
(*                                                                         *)
(* Numbers.  A Python number is a record [t, n, d]: its type tag ("int" or *)
(* "float") and its value n/d in lowest terms, d > 0.  Float arithmetic is *)
(* modelled as exact rational arithmetic over finite values; round(x, 2)   *)
(* is round-half-to-even on that value.  None and non-numeric arguments    *)
(* carry the tags "none" and "str".  Amounts are in MAD.                   *)
(***************************************************************************)
EXTENDS Integers, Sequences, FiniteSets, TLC

VARIABLES
    employees,   \* PayrollSystem.employees: the list of employee objects
    tax,         \* PayrollSystem.tax_calculator is not None
    given,       \* period_hours_map as the caller passed it to the latest call
    hours,       \* the same dictionary as the latest call left it
    events,      \* logger / payment-processor invocations of the latest call
    err,         \* the exception the latest call raised (NoErr if it returned)
    ret,         \* the mapping the latest call returned
    calls,       \* process_payroll calls made since the caller last dropped their outcome
    emp,         \* one employee object under direct method calls
    call,        \* the latest direct method call on emp and its outcome
    ghost,       \* history of emp: constructor argument, accepted multiplier, days logged
    netcalls     \* TaxCalculator.net calls made so far: a set of <<amount, result>>

vars == <<employees, tax, given, hours, events, err, ret, calls, emp, call, ghost, netcalls>>


----------------------------------------------------------------------------
(* Bounds of the model *)

MaxEmps == 3        \* longest employee list
MaxDays == 3        \* log_day calls explored on one contractor between two resets
MaxListDays == 1    \* the same, for the contractors of the employee list
MaxCalls == 2       \* consecutive process_payroll calls with one hours map
MaxSalary == 12000  \* apply_raise is explored while the salary is at most this
MaxRaises == 2      \* apply_raise calls explored after a salary is set
MaxNetCalls == 3    \* TaxCalculator.net calls whose results are kept together

----------------------------------------------------------------------------
(* Python numbers *)

Abs(k) == IF k < 0 THEN -k ELSE k

RECURSIVE GCD(_, _)
GCD(a, b) == IF b = 0 THEN a ELSE GCD(b, a % b)

Num(t, n, d) ==
    LET g == GCD(Abs(n), d)
    IN  [t |-> t, n |-> n \div g, d |-> d \div g]

PyInt(k) == Num("int", k, 1)
PyFloat(n, d) == Num("float", n, d)
None == [t |-> "none", n |-> 0, d |-> 1]
Str == [t |-> "str", n |-> 0, d |-> 1]

\* isinstance(v, (int, float))
IsNumber(v) == v.t \in {"int", "float"}

\* float(v)
Float(v) == Num("float", v.n, v.d)

\* the type of the result of a binary arithmetic operator
Join(x, y) == IF x.t = "int" /\ y.t = "int" THEN "int" ELSE "float"

Add(x, y) == Num(Join(x, y), x.n * y.d + y.n * x.d, x.d * y.d)
Sub(x, y) == Num(Join(x, y), x.n * y.d - y.n * x.d, x.d * y.d)
Mul(x, y) == Num(Join(x, y), x.n * y.n, x.d * y.d)
\* x / y with y a positive literal (true division: always a float)
Div(x, y) == Num("float", x.n * y.d, x.d * y.n)

\* comparisons of values: by whole part, then by fractional part
Lt(x, y) ==
    IF x.n \div x.d # y.n \div y.d
    THEN x.n \div x.d < y.n \div y.d
    ELSE (x.n % x.d) * y.d < (y.n % y.d) * x.d
\* == on numbers compares values, whatever the types (values are in lowest terms)
Eq(x, y) == x.n = y.n /\ x.d = y.d
Le(x, y) == Lt(x, y) \/ Eq(x, y)

\* min(a, b) and max(a, b): the first argument unless the second beats it
Min(a, b) == IF Lt(b, a) THEN b ELSE a
Max(a, b) == IF Lt(a, b) THEN b ELSE a

\* round(x, 2) of a float: the nearest multiple of 0.01, ties to even
Round2(x) ==
    LET s == x.n * 100
        q == s \div x.d
        r == s % x.d
        k == IF 2 * r > x.d THEN q + 1
             ELSE IF 2 * r < x.d THEN q
             ELSE IF q % 2 = 0 THEN q ELSE q + 1
    IN  Num("float", k, 100)

\* f"{x:.2f}": the text of x with two decimals, kept as the number it shows
Fmt2(x) == Round2(x)

----------------------------------------------------------------------------
(* Exceptions *)

NoErr == [type |-> "none", msg |-> "", name |-> ""]
ValueError(m) == [type |-> "ValueError", msg |-> m, name |-> ""]

ErrSalary == ValueError("monthly_salary must be a non-negative number.")
ErrPercent == ValueError("percent must be a number.")
ErrRaise == ValueError("Resulting salary cannot be negative.")
ErrRate == ValueError("hourly_rate must be non-negative.")
ErrHours == ValueError("period_hours must be provided and non-negative.")
ErrMultiplier == ValueError("Overtime multiplier must be a number >= 1.0.")
ErrDaily == ValueError("daily_rate must be non-negative.")
ErrMissing(name) ==
    [type |-> "ValueError", msg |-> "Missing hours for hourly employee", name |-> name]

\* the outcome of a method call: the object after it, the value returned, the error raised
Outcome(self, r, e) == [self |-> self, ret |-> r, err |-> e]

----------------------------------------------------------------------------
(* Employees *)

BaseHours == 160

Employee(kind, name, department) ==
    [kind |-> kind, name |-> name, department |-> department,
     monthly_salary |-> None, hourly_rate |-> None, overtime_multiplier |-> None,
     daily_rate |-> None, days_worked |-> None]

\* monthly_salary.setter
SetMonthlySalary(self, value) ==
    IF ~IsNumber(value) \/ Lt(value, PyInt(0))
    THEN Outcome(self, None, ErrSalary)
    ELSE Outcome([self EXCEPT !.monthly_salary = Float(value)], None, NoErr)

\* SalariedEmployee.__init__
NewSalaried(name, department, monthly_salary) ==
    SetMonthlySalary(
        [Employee("salaried", name, department) EXCEPT !.monthly_salary = PyFloat(0, 1)],
        monthly_salary)

\* SalariedEmployee.calculate_pay
SalariedCalculatePay(self, period_hours) ==
    Outcome(self, Float(self.monthly_salary), NoErr)

\* apply_raise without its check of the resulting salary (a faulty variant, which
\* C7_FieldsInRange tells from the code)
ApplyRaiseUnchecked(self, percent) ==
    IF ~IsNumber(percent)
    THEN Outcome(self, None, ErrPercent)
    ELSE Outcome([self EXCEPT !.monthly_salary =
                      Mul(@, Add(PyInt(1), Div(percent, PyFloat(100, 1))))],
                 None, NoErr)

\* SalariedEmployee.apply_raise
ApplyRaise(self, percent) ==
    IF ~IsNumber(percent)
    THEN Outcome(self, None, ErrPercent)
    ELSE LET new_salary ==
                 Mul(self.monthly_salary, Add(PyInt(1), Div(percent, PyFloat(100, 1))))
         IN  IF Lt(new_salary, PyInt(0))
             THEN Outcome(self, None, ErrRaise)
             ELSE Outcome([self EXCEPT !.monthly_salary = new_salary], None, NoErr)

\* HourlyEmployee.__init__
NewHourly(name, department, hourly_rate) ==
    IF Lt(hourly_rate, PyInt(0))
    THEN Outcome(None, None, ErrRate)
    ELSE Outcome([Employee("hourly", name, department) EXCEPT
                      !.hourly_rate = Float(hourly_rate),
                      !.overtime_multiplier = PyFloat(3, 2)],
                 None, NoErr)

\* calculate_pay accepting negative hours (a faulty variant, which
\* C2_NegativeHoursAborts tells from the code)
HourlyCalculatePayAnyHours(self, period_hours) ==
    IF period_hours = None
    THEN Outcome(self, None, ErrHours)
    ELSE LET base_hours == Min(period_hours, PyInt(BaseHours))
             overtime_hours == Max(Sub(period_hours, PyInt(BaseHours)), PyInt(0))
         IN  Outcome(self,
                     Add(Mul(base_hours, self.hourly_rate),
                         Mul(Mul(overtime_hours, self.hourly_rate),
                             self.overtime_multiplier)),
                     NoErr)

\* calculate_pay paying all hours at the base rate and the overtime hours once more
\* (a faulty variant, which C4_HourlyPay tells from the code)
HourlyCalculatePayNoSplit(self, period_hours) ==
    IF period_hours = None \/ Lt(period_hours, PyInt(0))
    THEN Outcome(self, None, ErrHours)
    ELSE LET base_hours == period_hours
             overtime_hours == Max(Sub(period_hours, PyInt(BaseHours)), PyInt(0))
         IN  Outcome(self,
                     Add(Mul(base_hours, self.hourly_rate),
                         Mul(Mul(overtime_hours, self.hourly_rate),
                             self.overtime_multiplier)),
                     NoErr)

\* HourlyEmployee.calculate_pay
HourlyCalculatePay(self, period_hours) ==
    IF period_hours = None \/ Lt(period_hours, PyInt(0))
    THEN Outcome(self, None, ErrHours)
    ELSE LET base_hours == Min(period_hours, PyInt(BaseHours))
             overtime_hours == Max(Sub(period_hours, PyInt(BaseHours)), PyInt(0))
         IN  Outcome(self,
                     Add(Mul(base_hours, self.hourly_rate),
                         Mul(Mul(overtime_hours, self.hourly_rate),
                             self.overtime_multiplier)),
                     NoErr)

\* HourlyEmployee.set_overtime_multiplier
SetOvertimeMultiplier(self, x) ==
    IF ~IsNumber(x) \/ Lt(x, PyFloat(1, 1))
    THEN Outcome(self, None, ErrMultiplier)
    ELSE Outcome([self EXCEPT !.overtime_multiplier = Float(x)], None, NoErr)

\* Contractor.__init__
NewContractor(name, department, daily_rate) ==
    IF Lt(daily_rate, PyInt(0))
    THEN Outcome(None, None, ErrDaily)
    ELSE Outcome([Employee("contractor", name, department) EXCEPT
                      !.daily_rate = Float(daily_rate),
                      !.days_worked = PyInt(0)],
                 None, NoErr)

\* Contractor.log_day
LogDay(self) ==
    Outcome([self EXCEPT !.days_worked = Add(@, PyInt(1))], None, NoErr)

\* reset_days leaving the counter alone (a faulty variant, which C6_ContractorPay
\* tells from the code)
ResetDaysKeeps(self) == Outcome(self, None, NoErr)

\* Contractor.reset_days
ResetDays(self) ==
    Outcome([self EXCEPT !.days_worked = PyInt(0)], None, NoErr)

\* calculate_pay starting a new period once the days are paid (a faulty variant,
\* which C10_CallChangesNothing tells from the code)
ContractorCalculatePayResets(self, period_hours) ==
    Outcome([self EXCEPT !.days_worked = PyInt(0)],
            Mul(self.daily_rate, self.days_worked), NoErr)

\* Contractor.calculate_pay
ContractorCalculatePay(self, period_hours) ==
    Outcome(self, Mul(self.daily_rate, self.days_worked), NoErr)

\* emp.calculate_pay(period_hours), dispatched on the object's class
CalculatePay(self, period_hours) ==
    CASE self.kind = "salaried" -> SalariedCalculatePay(self, period_hours)
      [] self.kind = "hourly" -> HourlyCalculatePay(self, period_hours)
      [] self.kind = "contractor" -> ContractorCalculatePay(self, period_hours)

----------------------------------------------------------------------------
(* Dictionaries: functions from names to values *)

EmptyDict == [k \in {} |-> None]
\* dict.setdefault(key, value): the first value of a key is kept (a faulty variant,
\* which C8_LastDuplicateWins tells from the code)
DictSetDefault(dict, key, value) == dict @@ (key :> value)

\* dict[key] = value
DictSet(dict, key, value) == (key :> value) @@ dict

----------------------------------------------------------------------------
(* Tax calculation *)

Bracket1 == 3000
Bracket2 == 10000

\* net with the boundary amounts in the upper bracket (a faulty variant, which
\* C5_TaxBrackets tells from the code)
TaxNetExclusive(amount) ==
    IF Lt(amount, PyInt(Bracket1)) THEN amount
    ELSE IF Lt(amount, PyInt(Bracket2)) THEN Mul(amount, PyFloat(90, 100))
    ELSE Mul(amount, PyFloat(80, 100))

\* TaxCalculator.net
TaxNet(amount) ==
    IF Le(amount, PyInt(Bracket1)) THEN amount
    ELSE IF Le(amount, PyInt(Bracket2)) THEN Mul(amount, PyFloat(90, 100))
    ELSE Mul(amount, PyFloat(80, 100))

\* TaxCalculator.compute_net_map
ComputeNetMap(gross_map) ==
    [name \in DOMAIN gross_map |-> Round2(TaxNet(gross_map[name]))]

----------------------------------------------------------------------------
(* The payroll runner *)

\* what a run leaves behind: the employee objects and the hours map after it,
\* the events it caused, the mapping it returned, the exception it raised
Run(emps, phm, evs, r, e) ==
    [employees |-> emps, period_hours_map |-> phm, events |-> evs, ret |-> r, err |-> e]

\* the loop of run_payroll reading period_hours_map.get(emp.name, 0) (a faulty
\* variant, which C1_MissingHoursAborts tells from the code)
RECURSIVE RunPayrollFromDefault(_, _, _, _)
RunPayrollFromDefault(emps, period_hours_map, i, results) ==
    IF i > Len(emps)
    THEN Run(emps, period_hours_map, <<>>, results, NoErr)
    ELSE LET e == emps[i]
             o == IF e.kind = "hourly"
                  THEN CalculatePay(e, IF e.name \in DOMAIN period_hours_map
                                       THEN period_hours_map[e.name] ELSE PyInt(0))
                  ELSE CalculatePay(e, None)
             after == [emps EXCEPT ![i] = o.self]
         IN  IF o.err # NoErr
             THEN Run(after, period_hours_map, <<>>, EmptyDict, o.err)
             ELSE RunPayrollFromDefault(after, period_hours_map, i + 1,
                      DictSet(results, e.name, Round2(Float(o.ret))))

\* the for loop of run_payroll from its i-th iteration on
RECURSIVE RunPayrollFrom(_, _, _, _)
RunPayrollFrom(emps, period_hours_map, i, results) ==
    IF i > Len(emps)
    THEN Run(emps, period_hours_map, <<>>, results, NoErr)
    ELSE LET e == emps[i]
         IN  IF e.kind = "hourly" /\ e.name \notin DOMAIN period_hours_map
             THEN Run(emps, period_hours_map, <<>>, EmptyDict, ErrMissing(e.name))
             ELSE LET o == IF e.kind = "hourly"
                           THEN CalculatePay(e, period_hours_map[e.name])
                           ELSE CalculatePay(e, None)
                      after == [emps EXCEPT ![i] = o.self]
                  IN  IF o.err # NoErr
                      THEN Run(after, period_hours_map, <<>>, EmptyDict, o.err)
                      ELSE RunPayrollFrom(after, period_hours_map, i + 1,
                               DictSet(results, e.name, Round2(Float(o.ret))))

\* run_payroll
RunPayroll(emps, period_hours_map) == RunPayrollFrom(emps, period_hours_map, 1, EmptyDict)

----------------------------------------------------------------------------
(* The orchestrator *)

\* logger.log(message): the message's text and the values formatted into it
LogEvent(text, name, gross, net) ==
    [op |-> "log", text |-> text, name |-> name, gross |-> gross, amount |-> net]
\* payment_processor.pay(employee_name, amount)
PayEvent(name, amount) ==
    [op |-> "pay", text |-> "", name |-> name, gross |-> None, amount |-> amount]

LogStart == LogEvent("Running payroll...", "", None, None)
LogComplete == LogEvent("Payroll complete.", "", None, None)

\* the payment loop paying the gross amount (a faulty variant, which C3_EventOrder
\* tells from the code)
RECURSIVE PayFromGross(_, _, _, _)
PayFromGross(emps, gross_map, net_map, i) ==
    IF i > Len(emps) THEN <<>>
    ELSE LET name == emps[i].name
             gross == gross_map[name]
             net == net_map[name]
         IN  <<LogEvent("Paying", name, Fmt2(gross), Fmt2(net)), PayEvent(name, gross)>>
                 \o PayFromGross(emps, gross_map, net_map, i + 1)

\* the payment loop paying each name once (a faulty variant, which
\* C9_DuplicatesPaidLastNet tells from the code)
RECURSIVE PayFromOnce(_, _, _, _)
PayFromOnce(emps, gross_map, net_map, i) ==
    IF i > Len(emps) THEN <<>>
    ELSE LET name == emps[i].name
             gross == gross_map[name]
             net == net_map[name]
         IN  <<LogEvent("Paying", name, Fmt2(gross), Fmt2(net))>>
                 \o (IF \E j \in 1..(i - 1) : emps[j].name = name
                     THEN <<>> ELSE <<PayEvent(name, net)>>)
                 \o PayFromOnce(emps, gross_map, net_map, i + 1)

\* the payment loop of process_payroll from its i-th iteration on
RECURSIVE PayFrom(_, _, _, _)
PayFrom(emps, gross_map, net_map, i) ==
    IF i > Len(emps) THEN <<>>
    ELSE LET name == emps[i].name
             gross == gross_map[name]
             net == net_map[name]
         IN  <<LogEvent("Paying", name, Fmt2(gross), Fmt2(net)), PayEvent(name, net)>>
                 \o PayFrom(emps, gross_map, net_map, i + 1)

\* PayrollSystem.process_payroll
ProcessPayrollCall(emps, tax_calculator, period_hours_map) ==
    LET run == RunPayroll(emps, period_hours_map)
        gross_map == run.ret
        net_map == IF tax_calculator THEN ComputeNetMap(gross_map) ELSE gross_map
    IN  IF run.err # NoErr
        THEN Run(run.employees, run.period_hours_map, <<LogStart>>, EmptyDict, run.err)
        ELSE Run(run.employees, run.period_hours_map,
                 <<LogStart>> \o PayFrom(run.employees, gross_map, net_map, 1)
                     \o <<LogComplete>>,
                 net_map, NoErr)

----------------------------------------------------------------------------
(* The payroll system under process_payroll calls and mutator calls *)

Names == {"a", "b"}

\* the employees a list is built from, as their constructors leave them
Pool ==
    { NewSalaried("a", "Finance", PyInt(12000)).self,
      NewHourly("a", "IT", PyInt(80)).self,
      NewHourly("b", "IT", PyFloat(8005, 100)).self,
      NewContractor("b", "Marketing", PyInt(2000)).self }

HoursValues == {PyInt(172), PyInt(-8)}
HoursMaps == UNION {[S -> HoursValues] : S \in SUBSET Names}

SalaryArgs == {PyInt(12000), PyInt(-1), Str}
PercentArgs == {PyInt(5), PyInt(-200), Str}
MultiplierArgs == {PyFloat(2, 1), PyFloat(1, 2), Str}

NoObservation ==
    /\ given = EmptyDict
    /\ hours = EmptyDict
    /\ events = <<>>
    /\ err = NoErr
    /\ ret = EmptyDict
    /\ calls = 0

PayrollIdle ==
    /\ employees = <<>>
    /\ tax = FALSE
    /\ NoObservation

ObjectIdle ==
    /\ emp = None
    /\ call = None
    /\ ghost = None

TaxIdle == netcalls = {}

Init ==
    /\ employees \in UNION {[1..n -> Pool] : n \in 0..MaxEmps}
    /\ tax \in BOOLEAN
    /\ NoObservation
    /\ ObjectIdle
    /\ TaxIdle

\* payroll_system.process_payroll(period_hours_map).  The caller makes up to
\* MaxCalls consecutive calls with one map before dropping what it observed.
ProcessPayroll(period_hours_map) ==
    /\ calls = 0 \/ (calls < MaxCalls /\ period_hours_map = given)
    /\ given' = period_hours_map
    /\ \E run \in {ProcessPayrollCall(employees, tax, period_hours_map)} :
           /\ employees' = run.employees
           /\ hours' = run.period_hours_map
           /\ events' = run.events
           /\ err' = run.err
           /\ ret' = run.ret
    /\ calls' = calls + 1
    /\ UNCHANGED <<tax, emp, call, ghost, netcalls>>

\* the caller drops the outcome of its process_payroll calls
Discard ==
    /\ calls > 0
    /\ given' = EmptyDict
    /\ hours' = EmptyDict
    /\ events' = <<>>
    /\ err' = NoErr
    /\ ret' = EmptyDict
    /\ calls' = 0
    /\ UNCHANGED <<employees, tax, emp, call, ghost, netcalls>>

\* a mutator call on the i-th employee of the list, made between two rounds of
\* process_payroll calls
Mutate(i, outcome) ==
    /\ calls = 0
    /\ employees' = [employees EXCEPT ![i] = outcome.self]
    /\ UNCHANGED <<tax, given, hours, events, err, ret, calls, emp, call, ghost, netcalls>>

\* employees[i].monthly_salary = value
CallSetMonthlySalary(i, value) ==
    /\ employees[i].kind = "salaried"
    /\ Mutate(i, SetMonthlySalary(employees[i], value))

\* employees[i].apply_raise(percent)
CallApplyRaise(i, percent) ==
    /\ employees[i].kind = "salaried"
    /\ Le(employees[i].monthly_salary, PyInt(MaxSalary))
    /\ Mutate(i, ApplyRaise(employees[i], percent))

\* employees[i].set_overtime_multiplier(x)
CallSetOvertimeMultiplier(i, x) ==
    /\ employees[i].kind = "hourly"
    /\ Mutate(i, SetOvertimeMultiplier(employees[i], x))

\* employees[i].log_day()
CallLogDay(i) ==
    /\ employees[i].kind = "contractor"
    /\ Lt(employees[i].days_worked, PyInt(MaxListDays))
    /\ Mutate(i, LogDay(employees[i]))

\* employees[i].reset_days()
CallResetDays(i) ==
    /\ employees[i].kind = "contractor"
    /\ Mutate(i, ResetDays(employees[i]))

Next ==
    \/ \E period_hours_map \in HoursMaps : ProcessPayroll(period_hours_map)
    \/ Discard
    \/ \E i \in DOMAIN employees, value \in SalaryArgs : CallSetMonthlySalary(i, value)
    \/ \E i \in DOMAIN employees, percent \in PercentArgs : CallApplyRaise(i, percent)
    \/ \E i \in DOMAIN employees, x \in MultiplierArgs : CallSetOvertimeMultiplier(i, x)
    \/ \E i \in DOMAIN employees : CallLogDay(i)
    \/ \E i \in DOMAIN employees : CallResetDays(i)

Spec == Init /\ [][Next]_vars

----------------------------------------------------------------------------
(* One employee object under direct method calls *)

RateArgs == {PyInt(0), PyInt(80), PyFloat(8005, 100), PyInt(-1)}
DailyArgs == {PyInt(0), PyInt(900), PyFloat(20005, 10), PyInt(-5)}
NewSalaryArgs == {PyInt(0), PyInt(2500), PyFloat(120005, 10), PyInt(-1), Str}
RaiseArgs == {PyInt(5), PyFloat(-125, 10), PyInt(-100), PyInt(-150), Str}
OvertimeArgs == {PyInt(1), PyFloat(2, 1), PyFloat(99, 100), PyInt(3), PyInt(-2), Str, None}
HoursArgs == {None, PyInt(-1), PyFloat(-1, 2), PyInt(0), PyInt(100), PyInt(160),
              PyFloat(3201, 20), PyInt(161), PyInt(172)}

\* a call of a method: the object before it, the method's name and argument, the
\* value returned, the error raised
Call(before, op, arg, outcome) ==
    [before |-> before, op |-> op, arg |-> arg, ret |-> outcome.ret, err |-> outcome.err]

\* what is remembered of the calls made on emp
Ghost(rate) ==
    [rate |-> rate, multiplier |-> PyFloat(3, 2), logged |-> 0, reset |-> FALSE, raises |-> 0]

\* emp = SalariedEmployee / HourlyEmployee / Contractor (name, department, argument),
\* when the constructor succeeds
Constructed(outcome, arg) ==
    /\ outcome.err = NoErr
    /\ emp = outcome.self
    /\ call = Call(None, "__init__", arg, outcome)
    /\ ghost = Ghost(arg)

ObjInit ==
    /\ PayrollIdle
    /\ TaxIdle
    /\ \/ \E arg \in NewSalaryArgs : Constructed(NewSalaried("a", "Finance", arg), arg)
       \/ \E arg \in RateArgs : Constructed(NewHourly("a", "IT", arg), arg)
       \/ \E arg \in DailyArgs : Constructed(NewContractor("a", "Marketing", arg), arg)

\* a method call on emp
Invoke(op, arg, outcome) ==
    /\ emp' = outcome.self
    /\ call' = Call(emp, op, arg, outcome)
    /\ UNCHANGED <<employees, tax, given, hours, events, err, ret, calls, netcalls>>

\* emp.monthly_salary = value
ObjSetMonthlySalary(value) ==
    /\ emp.kind = "salaried"
    /\ \E o \in {SetMonthlySalary(emp, value)} :
           /\ Invoke("monthly_salary", value, o)
           /\ ghost' = IF o.err = NoErr THEN [ghost EXCEPT !.raises = 0] ELSE ghost

\* emp.apply_raise(percent)
ObjApplyRaise(percent) ==
    /\ emp.kind = "salaried"
    /\ ghost.raises < MaxRaises
    /\ Invoke("apply_raise", percent, ApplyRaise(emp, percent))
    /\ ghost' = [ghost EXCEPT !.raises = @ + 1]

\* emp.set_overtime_multiplier(x)
ObjSetOvertimeMultiplier(x) ==
    /\ emp.kind = "hourly"
    /\ \E o \in {SetOvertimeMultiplier(emp, x)} :
           /\ Invoke("set_overtime_multiplier", x, o)
           /\ ghost' = IF o.err = NoErr THEN [ghost EXCEPT !.multiplier = x] ELSE ghost

\* emp.log_day()
ObjLogDay ==
    /\ emp.kind = "contractor"
    /\ ghost.logged < MaxDays
    /\ Invoke("log_day", None, LogDay(emp))
    /\ ghost' = [ghost EXCEPT !.logged = @ + 1]

\* emp.reset_days()
ObjResetDays ==
    /\ emp.kind = "contractor"
    /\ Invoke("reset_days", None, ResetDays(emp))
    /\ ghost' = [ghost EXCEPT !.logged = 0, !.reset = TRUE]

\* emp.calculate_pay(period_hours)
ObjCalculatePay(period_hours) ==
    /\ Invoke("calculate_pay", period_hours, CalculatePay(emp, period_hours))
    /\ UNCHANGED ghost

ObjNext ==
    \/ \E value \in NewSalaryArgs : ObjSetMonthlySalary(value)
    \/ \E percent \in RaiseArgs : ObjApplyRaise(percent)
    \/ \E x \in OvertimeArgs : ObjSetOvertimeMultiplier(x)
    \/ ObjLogDay
    \/ ObjResetDays
    \/ \E period_hours \in HoursArgs : ObjCalculatePay(period_hours)

SpecObj == ObjInit /\ [][ObjNext]_vars

----------------------------------------------------------------------------
(* The tax calculator under direct calls of net *)

TaxAmounts ==
    {PyInt(0), PyFloat(299999, 100), PyInt(3000), PyFloat(3000, 1), PyFloat(300001, 100),
     PyFloat(5000, 1), PyFloat(999999, 100), PyInt(10000), PyFloat(10000, 1),
     PyFloat(1000001, 100), PyFloat(14720, 1)}

TaxInit ==
    /\ PayrollIdle
    /\ ObjectIdle
    /\ netcalls = {}

\* TaxCalculator.net(amount)
CallNet(amount) ==
    /\ Cardinality(netcalls) < MaxNetCalls
    /\ netcalls' = netcalls \cup {[amount |-> amount, net |-> TaxNet(amount)]}
    /\ UNCHANGED <<employees, tax, given, hours, events, err, ret, calls, emp, call, ghost>>

\* the results are dropped
ForgetNet ==
    /\ netcalls # {}
    /\ netcalls' = {}
    /\ UNCHANGED <<employees, tax, given, hours, events, err, ret, calls, emp, call, ghost>>

TaxNext ==
    \/ \E amount \in TaxAmounts : CallNet(amount)
    \/ ForgetNet

SpecTax == TaxInit /\ [][TaxNext]_vars

----------------------------------------------------------------------------
(* Vocabulary of the properties of process_payroll *)

\* the payment-processor invocations among some events
Pays(evs) == SelectSeq(evs, LAMBDA e : e.op = "pay")

\* the spec's error kinds, by the raise statement they come from
IsMissingInput(e) == e.type = "ValueError" /\ e.msg = "Missing hours for hourly employee"
IsInvalidInput(e) == e = ErrHours

\* positions of the list holding an hourly employee without / with negative hours
MissingAt == {i \in DOMAIN employees :
                 employees[i].kind = "hourly" /\ employees[i].name \notin DOMAIN given}
NegativeAt == {i \in DOMAIN employees :
                  /\ employees[i].kind = "hourly"
                  /\ employees[i].name \in DOMAIN given
                  /\ Lt(given[employees[i].name], PyInt(0))}

First(S) == CHOOSE i \in S : \A j \in S : i <= j
Last(S) == CHOOSE i \in S : \A j \in S : j <= i

\* the failure the first offending employee of the list causes
FirstFailure ==
    LET i == First(MissingAt \cup NegativeAt)
    IN  IF i \in MissingAt THEN ErrMissing(employees[i].name) ELSE ErrHours

\* gross and net pay of the i-th employee on its own, in a run that succeeds
GrossOf(i) ==
    Round2(Float(CalculatePay(employees[i],
                     IF employees[i].kind = "hourly"
                     THEN given[employees[i].name] ELSE None).ret))
NetOf(i) == IF tax THEN Round2(TaxNet(GrossOf(i))) ELSE GrossOf(i)

\* the last position of the list that holds the name at position i
LastNamed(i) == Last({j \in DOMAIN employees : employees[j].name = employees[i].name})

Called == calls >= 1
Succeeded == calls >= 1 /\ err = NoErr

----------------------------------------------------------------------------
(* C1: whenever an hourly employee of the list is absent from the hours map,   *)
(* process_payroll fails and the payment processor is never invoked; the       *)
(* error is the one of the first offending employee in list order: the         *)
(* missing-hours error naming it, or the invalid-hours error if an hourly      *)
(* employee with negative hours comes before every missing one.                *)
C1_MissingHoursAborts ==
    (Called /\ MissingAt # {}) =>
        /\ err = FirstFailure
        /\ err # NoErr
        /\ First(MissingAt) < First(NegativeAt \cup {Len(employees) + 1}) =>
               IsMissingInput(err) /\ err.name = employees[First(MissingAt)].name
        /\ Pays(events) = <<>>
        /\ ret = EmptyDict

\* C1 as stated: the failure is always the missing-hours error naming a missing employee
C1_AlwaysMissingInput ==
    (Called /\ MissingAt # {}) =>
        /\ IsMissingInput(err)
        /\ \E i \in MissingAt : err.name = employees[i].name
        /\ Pays(events) = <<>>

\* a call fails on a missing hourly employee in last place, after two payable employees
C1_Witness ==
    /\ Called
    /\ Len(employees) = 3
    /\ MissingAt = {3}
    /\ NegativeAt = {}
    /\ employees[1].kind = "contractor" /\ Lt(PyInt(0), employees[1].days_worked)
    /\ employees[2].kind = "salaried"
    /\ IsMissingInput(err)

(* C2: whenever an hourly employee of the list has negative hours in the map,  *)
(* process_payroll fails with the error of the first offending employee in     *)
(* list order (the invalid-hours error, unless an hourly employee missing from *)
(* the map comes first), no payment is made to anyone and the completion       *)
(* message is not logged.                                                      *)
C2_NegativeHoursAborts ==
    (Called /\ NegativeAt # {}) =>
        /\ err = FirstFailure
        /\ err # NoErr
        /\ First(NegativeAt) < First(MissingAt \cup {Len(employees) + 1}) =>
               IsInvalidInput(err)
        /\ Pays(events) = <<>>
        /\ \A k \in DOMAIN events : events[k] # LogComplete
        /\ events = <<LogStart>>

\* C2 as stated: the failure is always the invalid-hours error
C2_AlwaysInvalidInput ==
    (Called /\ NegativeAt # {}) =>
        /\ IsInvalidInput(err)
        /\ Pays(events) = <<>>
        /\ \A k \in DOMAIN events : events[k] # LogComplete

\* a call fails on negative hours of the last employee, after two payable employees
C2_Witness ==
    /\ Called
    /\ Len(employees) = 3
    /\ NegativeAt = {3}
    /\ MissingAt = {}
    /\ employees[1].kind = "salaried"
    /\ employees[2].kind = "hourly"
    /\ IsInvalidInput(err)

(* C3: a successful run causes, in this order: the start log; for each         *)
(* employee in list order a log line for it, immediately followed by           *)
(* pay(name, net) with net the returned mapping's value for that name; the     *)
(* completion log.  There are as many pay invocations as employees.            *)
C3_EventOrder ==
    Succeeded =>
        /\ Len(events) = 2 * Len(employees) + 2
        /\ events[1] = LogStart
        /\ events[Len(events)] = LogComplete
        /\ \A i \in DOMAIN employees :
               /\ events[2 * i].op = "log"
               /\ events[2 * i].text = "Paying"
               /\ events[2 * i].name = employees[i].name
               /\ events[2 * i + 1] = PayEvent(employees[i].name, ret[employees[i].name])
        /\ Len(Pays(events)) = Len(employees)

\* a successful run over three employees, with tax taken from one of them
C3_Witness ==
    /\ Succeeded
    /\ Len(employees) = 3
    /\ tax
    /\ \E i \in DOMAIN employees : ~Eq(events[2 * i].gross, events[2 * i + 1].amount)

(* C8: with several entries of one name in the list, run_payroll does not fail *)
(* (a run fails only on missing or negative hours) and its result has one      *)
(* entry per distinct name, holding the gross pay of the last list entry of    *)
(* that name.                                                                  *)
C8_LastDuplicateWins ==
    (Called /\ MissingAt = {} /\ NegativeAt = {}) =>
        /\ err = NoErr
        /\ DOMAIN ret = {employees[i].name : i \in DOMAIN employees}
        /\ \A i \in DOMAIN employees :
               /\ events[2 * i].gross = Fmt2(GrossOf(LastNamed(i)))
               /\ ~tax => ret[employees[i].name] = GrossOf(LastNamed(i))

\* a successful run over a list in which two entries of one name earn different gross pay
C8_Witness ==
    /\ Succeeded
    /\ \E i \in DOMAIN employees :
           /\ LastNamed(i) # i
           /\ ~Eq(GrossOf(i), GrossOf(LastNamed(i)))

(* C9: with k entries of one name in the list, a successful process_payroll    *)
(* invokes the payment processor k times for that name, each time with the     *)
(* net pay of the last entry of that name.                                     *)
C9_DuplicatesPaidLastNet ==
    Succeeded =>
        \A i \in DOMAIN employees :
            /\ Cardinality({k \in DOMAIN events :
                               events[k].op = "pay" /\ events[k].name = employees[i].name})
                   = Cardinality({j \in DOMAIN employees :
                                     employees[j].name = employees[i].name})
            /\ \A k \in DOMAIN events :
                   (events[k].op = "pay" /\ events[k].name = employees[i].name)
                       => events[k].amount = NetOf(LastNamed(i))

\* an earlier duplicate is paid the net pay of the later one, which is not its own
C9_Witness ==
    /\ Succeeded
    /\ tax
    /\ \E i \in DOMAIN employees :
           /\ LastNamed(i) # i
           /\ ~Eq(NetOf(i), NetOf(LastNamed(i)))
           /\ events[2 * i + 1].amount = NetOf(LastNamed(i))

(* C10: a process_payroll call, failing or not, changes no employee, nor the   *)
(* list, nor the tax calculator, nor the hours map it is given; a call         *)
(* repeated with the same map right after another has the same outcome: the    *)
(* same returned mapping, the same error, the same payments.                   *)
C10_CallChangesNothing ==
    [][calls' > calls =>
          /\ employees' = employees
          /\ tax' = tax
          /\ hours' = given'
          /\ calls >= 1 =>
                 /\ given' = given
                 /\ ret' = ret
                 /\ err' = err
                 /\ Pays(events') = Pays(events)
                 /\ events' = events]_vars

\* a second successful call in a row, over a list with a contractor who has logged days
C10_Witness ==
    /\ calls = 2
    /\ err = NoErr
    /\ \E i \in DOMAIN employees :
           employees[i].kind = "contractor" /\ Lt(PyInt(0), employees[i].days_worked)
    /\ Len(Pays(events)) = Len(employees)

----------------------------------------------------------------------------
(* Properties of one employee object and of the tax calculator *)

(* C4: an hourly employee with rate r and overtime multiplier m (1.5, or the   *)
(* last value set_overtime_multiplier accepted) is paid h*r for 0 <= h <= 160  *)
(* hours and 160*r + (h-160)*r*m for h > 160; calculate_pay fails with the     *)
(* invalid-hours error when h is missing or negative.                          *)
C4_HourlyPay ==
    (emp # None /\ emp.kind = "hourly") =>
        /\ Eq(emp.hourly_rate, ghost.rate)
        /\ Eq(emp.overtime_multiplier, ghost.multiplier)
        /\ call.op = "calculate_pay" =>
               LET h == call.arg
                   r == ghost.rate
                   m == ghost.multiplier
               IN  IF h = None \/ Lt(h, PyInt(0))
                   THEN call.err = ErrHours /\ call.ret = None
                   ELSE /\ call.err = NoErr
                        /\ Le(h, PyInt(160)) => Eq(call.ret, Mul(h, r))
                        /\ Lt(PyInt(160), h) =>
                               Eq(call.ret,
                                  Add(Mul(PyInt(160), r),
                                      Mul(Mul(Sub(h, PyInt(160)), r), m)))

\* 172 hours at rate 80 with the multiplier set to 2.0 are paid 14720
C4_Witness ==
    /\ emp # None /\ emp.kind = "hourly"
    /\ call.op = "calculate_pay"
    /\ call.arg = PyInt(172)
    /\ ghost.rate = PyInt(80)
    /\ ghost.multiplier = PyFloat(2, 1)
    /\ Eq(call.ret, PyInt(14720))

(* C6: a contractor with daily rate d is paid d times the number of log_day    *)
(* calls made since the latest reset_days (or since construction), whatever    *)
(* period-hours argument is passed; right after reset_days that is 0.          *)
C6_ContractorPay ==
    (emp # None /\ emp.kind = "contractor") =>
        /\ \A period_hours \in HoursArgs :
               LET o == CalculatePay(emp, period_hours)
               IN  /\ o.err = NoErr
                   /\ Eq(o.ret, Mul(ghost.rate, PyInt(ghost.logged)))
        /\ call.op = "calculate_pay" =>
               /\ call.err = NoErr
               /\ Eq(call.ret, Mul(ghost.rate, PyInt(ghost.logged)))
        /\ call.op = "reset_days" =>
               \A period_hours \in HoursArgs :
                   Eq(CalculatePay(emp, period_hours).ret, PyInt(0))

\* a day logged after a reset is paid once, the days before the reset are not
C6_Witness ==
    /\ emp # None /\ emp.kind = "contractor"
    /\ ghost.reset
    /\ ghost.logged = 1
    /\ call.op = "calculate_pay"
    /\ call.arg = PyInt(172)
    /\ Eq(call.ret, PyInt(900))

BracketOf(amount) ==
    IF Le(amount, PyInt(3000)) THEN 1 ELSE IF Le(amount, PyInt(10000)) THEN 2 ELSE 3

(* C5: net(amount) is amount up to 3000, amount*0.90 above 3000 and up to      *)
(* 10000, amount*0.80 above 10000; net(3000) = 3000 and net(10000) = 9000; of  *)
(* two amounts in one bracket the larger has the larger or equal net.          *)
C5_TaxBrackets ==
    /\ \A c \in netcalls :
           /\ Le(c.amount, PyInt(3000)) => Eq(c.net, c.amount)
           /\ (Lt(PyInt(3000), c.amount) /\ Le(c.amount, PyInt(10000)))
                  => Eq(Mul(c.net, PyInt(10)), Mul(c.amount, PyInt(9)))
           /\ Lt(PyInt(10000), c.amount)
                  => Eq(Mul(c.net, PyInt(10)), Mul(c.amount, PyInt(8)))
           /\ Eq(c.amount, PyInt(3000)) => Eq(c.net, PyInt(3000))
           /\ Eq(c.amount, PyInt(10000)) => Eq(c.net, PyInt(9000))
    /\ \A c1, c2 \in netcalls :
           (BracketOf(c1.amount) = BracketOf(c2.amount) /\ Le(c1.amount, c2.amount))
               => Le(c1.net, c2.net)

\* net has been called on both boundary amounts and just above the first
C5_Witness ==
    /\ \E c \in netcalls : c.amount = PyInt(3000) /\ Eq(c.net, PyInt(3000))
    /\ \E c \in netcalls : c.amount = PyFloat(10000, 1) /\ Eq(c.net, PyInt(9000))
    /\ \E c \in netcalls : c.amount = PyFloat(300001, 100) /\ Lt(c.net, PyInt(2701))

====
